---- MODULE Spec2Model ----
(***************************************************************************)
(* The ImageAnnotator widget (src/src/components/ImageAnnotator.tsx, the   *)
(* component defined at lines 458-850): the annotation list, the edit      *)
(* focus with its draft text, the click-versus-drag refs, the highlight    *)
(* with its fire-and-forget timers, and the event handlers that change     *)
(* them.  One action per handler.  React flushes the state updates of a    *)
(* discrete event before the next event is dispatched, so every handler    *)
(* reads the state its predecessor left and acts atomically.               *)
(***************************************************************************)
EXTENDS Integers, Sequences, FiniteSets

(***************************************************************************)
(* Bounds of the model.                                                    *)
(***************************************************************************)
\* pins created in a session (image clicks that append a pin) under Spec
MaxCreated == 3
\* pins created in a session under SpecClock
MaxClockPins == 2
\* pins created in a session under SpecPointer
MaxPointerPins == 1
\* readings of the clock: new Date() returns a value in 0..MaxTime
MaxTime == 2
\* pins created in a session under SpecZoom
MaxZoomPins == 2
\* pins created in a session under SpecViewport
MaxViewPins == 1
\* pins created in a session under SpecHighlight
MaxHighlightPins == 2
\* highlight timers pending at once
MaxTimers == 2
\* zoom levels of the viewport: 0 (zoomed out) .. MaxZoomLevel
MaxZoomLevel == 1
\* pointer coordinates run over 0 and DRAG_THRESHOLD..DRAG_THRESHOLD+MaxOver
MaxOver == 1

(***************************************************************************)
(* Program constants.                                                      *)
(***************************************************************************)
\* "if (dx > 5 || dy > 5)"
DRAG_THRESHOLD == 5

(***************************************************************************)
(* Values.                                                                 *)
(***************************************************************************)
\* T | null
Null == {}
Some(v) == {v}
The(opt) == CHOOSE v \in opt : TRUE

\* comment texts: the empty string and two different non-empty ones
Texts == {"", "a", "b"}

\* JavaScript truthiness of a string: only '' is falsy
Truthy(text) == text # ""

\* pointer coordinates on either axis of the screen
Coords == {0} \cup (DRAG_THRESHOLD .. DRAG_THRESHOLD + MaxOver)
Points == [x : Coords, y : Coords]

\* where SpecPointer presses the button: two opposite corners
PressPoints == {p \in Points : p.x = p.y /\ p.x \in {0, DRAG_THRESHOLD + 1}}

\* two points of the surface further apart than the drag threshold
NearPoint == [x |-> 0, y |-> DRAG_THRESHOLD]
FarPoint == [x |-> DRAG_THRESHOLD + 1, y |-> DRAG_THRESHOLD]

\* imageRef.current.getBoundingClientRect() at a zoom level.  The image is
\* letterboxed in the click surface (object-contain): it starts at the left
\* edge and 5 below the top edge.  Level 0 is the smallest scale, and the
\* rendered image doubles with every zoom step.
ImageRect(level) ==
    [left |-> 0, top |-> 5, width |-> 5 * (2 ^ level), height |-> 5 * (2 ^ level)]

\* a percentage that forgets the origin of the rectangle
PercentOfClient(client, origin, extent) == (client * 100) \div extent

\* ((client - origin) / extent) * 100; the extents of ImageRect divide
\* every offset * 100, so the quotient is exact
Percent(client, origin, extent) == ((client - origin) * 100) \div extent

\* (e.currentTarget as HTMLElement).getBoundingClientRect() of a marker: the
\* marker is laid out at left: x%, top: y%, here taken of the image's rectangle
MarkerRect(annotation, rect) ==
    [left |-> rect.left + (annotation.x * rect.width) \div 100,
     top |-> rect.top + (annotation.y * rect.height) \div 100]

\* initialScale={1}: one step above the smallest scale
InitialLevel == IF MaxZoomLevel > 0 THEN 1 ELSE 0

VARIABLES
    annotations,         \* useState<Annotation[]>([])
    selectedAnnotation,  \* useState<Annotation | null>(null): a copy of the pin
    commentText,         \* useState('')
    highlightedId,       \* useState<number | null>(null)
    annotationMode,      \* useState(true)
    popupPosition,       \* useState<{x, y} | null>(null)
    isDraggingRef,       \* useRef(false)
    lastMousePosRef,     \* useRef<{x, y} | null>(null)
    zoomLevel,           \* scale held by the TransformWrapper
    pendingClears,       \* setTimeout callbacks of handleListClick not yet run
    now,                 \* the clock read by new Date()
    pointer,             \* the mouse: up, pressed, or released with a click to deliver
    created,             \* history: pins appended so far
    maxId,               \* history: the largest id ever assigned, 0 if none
    cancelled,           \* history: handleCancel has run
    saved,               \* history: handleSaveComment has run
    everTexted,          \* history: ids of the listed pins that were saved non-empty text
    lastOp               \* history: what the last step did, and on what

vars == <<annotations, selectedAnnotation, commentText, highlightedId,
          annotationMode, popupPosition, isDraggingRef, lastMousePosRef,
          zoomLevel, pendingClears, now, pointer, created, maxId, cancelled,
          saved, everTexted, lastOp>>

storeVars == <<annotations, selectedAnnotation, commentText, popupPosition>>
dragVars == <<isDraggingRef, lastMousePosRef>>
histVars == <<created, maxId, cancelled, saved, everTexted>>

Idle == [phase |-> "up"]

Did(op) == [op |-> op]

Init ==
    /\ annotations = <<>>
    /\ selectedAnnotation = Null
    /\ commentText = ""
    /\ highlightedId = Null
    /\ annotationMode = TRUE
    /\ popupPosition = Null
    /\ isDraggingRef = FALSE
    /\ lastMousePosRef = Null
    /\ zoomLevel = InitialLevel
    /\ pendingClears = 0
    /\ now = 0
    /\ pointer = Idle
    /\ created = 0
    /\ maxId = 0
    /\ cancelled = FALSE
    /\ saved = FALSE
    /\ everTexted = {}
    /\ lastOp = Did("init")

(***************************************************************************)
(* The pure parts of the handlers.                                         *)
(***************************************************************************)
Ids(list) == {list[i].id : i \in 1..Len(list)}

Max(a, b) == IF a > b THEN a ELSE b

Abs(n) == IF n < 0 THEN -n ELSE n

\* a drag test that wants both axes over the threshold (&& for ||)
ExceedsBothAxes(press, p) ==
    /\ Abs(p.x - press.x) > DRAG_THRESHOLD
    /\ Abs(p.y - press.y) > DRAG_THRESHOLD

\* handleMouseMove: dx > 5 || dy > 5, measured from the press point
ExceedsThreshold(press, p) ==
    \/ Abs(p.x - press.x) > DRAG_THRESHOLD
    \/ Abs(p.y - press.y) > DRAG_THRESHOLD

\* an early return that forgets the mode
ClickIgnoredOnDragOnly(mode, dragging) == dragging

\* handleImageClick: the early return
ClickIgnored(mode, dragging) == ~mode \/ dragging

\* a newAnnotation numbered from zero (annotations.length for length + 1)
NewAnnotationFromZero(list, p, rect, time) ==
    [id |-> Len(list),
     x |-> Percent(p.x, rect.left, rect.width),
     y |-> Percent(p.y, rect.top, rect.height),
     text |-> "",
     timestamp |-> time]

\* a newAnnotation born with a placeholder text
NewAnnotationWithPlaceholder(list, p, rect, time) ==
    [id |-> Len(list) + 1,
     x |-> Percent(p.x, rect.left, rect.width),
     y |-> Percent(p.y, rect.top, rect.height),
     text |-> "a",
     timestamp |-> time]

\* handleImageClick: newAnnotation
NewAnnotation(list, p, rect, time) ==
    [id |-> Len(list) + 1,
     x |-> Percent(p.x, rect.left, rect.width),
     y |-> Percent(p.y, rect.top, rect.height),
     text |-> "",
     timestamp |-> time]

\* a save that never refreshes the timestamp
SavedAnnotationKeepingTime(ann, draft, time) == [ann EXCEPT !.text = draft]

\* a save that refreshes the timestamp every time
SavedAnnotationRefreshing(ann, draft, time) ==
    [ann EXCEPT !.text = draft, !.timestamp = time]

\* handleSaveComment: prev.map(ann => ann.id === selectedAnnotation.id ? ... : ann)
SavedAnnotation(ann, draft, time) ==
    [ann EXCEPT !.text = draft,
                !.timestamp = IF Truthy(ann.text) THEN ann.timestamp ELSE time]

\* a save that drops the edited pin when the draft is empty
SavedListDroppingEmpty(list, selected, draft, time) ==
    LET kept == IF draft = "" THEN SelectSeq(list, LAMBDA ann : ann.id # selected.id)
                ELSE list
    IN  [i \in 1..Len(kept) |->
            IF kept[i].id = selected.id THEN SavedAnnotation(kept[i], draft, time)
            ELSE kept[i]]

SavedList(list, selected, draft, time) ==
    [i \in 1..Len(list) |->
        IF list[i].id = selected.id THEN SavedAnnotation(list[i], draft, time)
        ELSE list[i]]

\* a cancel that looks at the draft alone
CancelRemovesOnEmptyDraft(selected, draft) == ~Truthy(draft)

\* handleCancel: if (!selectedAnnotation.text && !commentText)
CancelRemoves(selected, draft) == ~Truthy(selected.text) /\ ~Truthy(draft)

\* handleCancel: prev.filter(ann => ann.id !== selectedAnnotation.id)
WithoutId(list, id) == SelectSeq(list, LAMBDA ann : ann.id # id)

CancelledList(list, selected, draft) ==
    IF CancelRemoves(selected, draft) THEN WithoutId(list, selected.id) ELSE list

\* a comment list that forgets to filter
CommentsWithTextUnfiltered(list) == list

\* commentsWithText: annotations.filter(a => a.text)
CommentsWithText(list) == SelectSeq(list, LAMBDA ann : Truthy(ann.text))

\* commentsCount: commentsWithText.length, shown as "Comentarios (n)"
CommentsCount(list) == Len(CommentsWithText(list))

\* the marker of a pin carries the ring: highlightedId === annotation.id
IsHighlighted(highlighted, annotation) == highlighted = Some(annotation.id)

\* the popup is rendered: popupPosition && selectedAnnotation
PopupOpen == popupPosition # Null /\ selectedAnnotation # Null

(***************************************************************************)
(* The mouse.  A press on the click surface (the image, the margin around  *)
(* it, or a marker, whose mousedown bubbles to the surface) is followed by *)
(* moves and a release.  A release on the surface delivers mouseup and     *)
(* then click: to the marker if the press and the release were on the same *)
(* marker, to the surface (their common ancestor) otherwise.  target 0 is  *)
(* the surface itself, target i > 0 the marker of annotations[i].  The     *)
(* pointer record also keeps, as history, whether the pointer has been     *)
(* further than the threshold from the press point since the press.  The   *)
(* buttons, the textarea and the comment list are outside the surface and  *)
(* are used with the mouse button up.  imageRef.current is the mounted     *)
(* <img>, so the "!imageRef.current" tests are false.                      *)
(***************************************************************************)
Targets == 0 .. Len(annotations)

Pressed(target, p) ==
    [phase |-> "down", target |-> target, press |-> p, pos |-> p, far |-> FALSE]

Distance(p, q) == Max(Abs(p.x - q.x), Abs(p.y - q.y))

MovedTo(ptr, p) ==
    [ptr EXCEPT !.pos = p,
                !.far = ptr.far \/ Distance(ptr.press, p) > DRAG_THRESHOLD]

Released(ptr, target) ==
    [phase |-> "click", target |-> IF target = ptr.target THEN target ELSE 0,
     pos |-> ptr.pos, far |-> ptr.far]

\* a handleMouseDown that leaves the drag mark as it is
HandleMouseDownKeepingMark(target, p) ==
    /\ pointer = Idle
    /\ target \in Targets
    /\ lastMousePosRef' = Some(p)
    /\ pointer' = Pressed(target, p)
    /\ lastOp' = [op |-> "press", marked |-> isDraggingRef]
    /\ UNCHANGED <<storeVars, histVars, highlightedId, annotationMode,
                   zoomLevel, pendingClears, now, isDraggingRef>>

\* handleMouseDown
HandleMouseDown(target, p) ==
    /\ pointer = Idle
    /\ target \in Targets
    /\ lastMousePosRef' = Some(p)
    /\ isDraggingRef' = FALSE
    /\ pointer' = Pressed(target, p)
    /\ lastOp' = [op |-> "press", marked |-> isDraggingRef]
    /\ UNCHANGED <<storeVars, histVars, highlightedId, annotationMode,
                   zoomLevel, pendingClears, now>>

\* a handleMouseMove that measures each move from the previous position
HandleMouseMoveFromLastPosition(p) ==
    /\ pointer.phase \in {"up", "down"}
    /\ pointer.phase = "down" => p # pointer.pos
    /\ isDraggingRef' =
          IF lastMousePosRef # Null /\ ExceedsThreshold(The(lastMousePosRef), p)
          THEN TRUE ELSE isDraggingRef
    /\ lastMousePosRef' = IF lastMousePosRef # Null THEN Some(p) ELSE lastMousePosRef
    /\ pointer' = IF pointer.phase = "down" THEN MovedTo(pointer, p) ELSE pointer
    /\ lastOp' = Did("mouse")
    /\ UNCHANGED <<storeVars, histVars, highlightedId, annotationMode,
                   zoomLevel, pendingClears, now>>

\* handleMouseMove, with the button held or not
HandleMouseMove(p) ==
    /\ pointer.phase \in {"up", "down"}
    /\ pointer.phase = "down" => p # pointer.pos
    /\ isDraggingRef' =
          IF lastMousePosRef # Null /\ ExceedsThreshold(The(lastMousePosRef), p)
          THEN TRUE ELSE isDraggingRef
    /\ pointer' = IF pointer.phase = "down" THEN MovedTo(pointer, p) ELSE pointer
    /\ lastOp' = Did("mouse")
    /\ UNCHANGED <<storeVars, histVars, highlightedId, annotationMode,
                   zoomLevel, pendingClears, now, lastMousePosRef>>

\* handleMouseUp; the click event is then due
HandleMouseUp(target) ==
    /\ pointer.phase = "down"
    /\ target \in Targets
    /\ lastMousePosRef' = Null
    /\ pointer' = Released(pointer, target)
    /\ lastOp' = Did("mouse")
    /\ UNCHANGED <<storeVars, histVars, highlightedId, annotationMode,
                   zoomLevel, pendingClears, now, isDraggingRef>>

\* the button is released outside the click surface: no handler of the
\* component runs and no click reaches the surface
ReleaseOutside ==
    /\ pointer.phase = "down"
    /\ pointer' = Idle
    /\ lastOp' = Did("mouse")
    /\ UNCHANGED <<storeVars, histVars, dragVars, highlightedId, annotationMode,
                   zoomLevel, pendingClears, now>>

\* a handleImageClick that puts the new pin first: [newAnnotation, ...prev]
HandleImageClickPrepending(limit) ==
    /\ pointer.phase = "click"
    /\ pointer.target = 0
    /\ pointer' = Idle
    /\ IF ClickIgnored(annotationMode, isDraggingRef)
       THEN /\ isDraggingRef' = FALSE
            /\ lastOp' = [op |-> "clickIgnored", far |-> pointer.far]
            /\ UNCHANGED <<storeVars, histVars>>
       ELSE LET newAnnotation ==
                    NewAnnotation(annotations, pointer.pos, ImageRect(zoomLevel), now)
            IN  /\ created < limit
                /\ annotations' = <<newAnnotation>> \o annotations
                /\ selectedAnnotation' = Some(newAnnotation)
                /\ commentText' = ""
                /\ popupPosition' = Some(pointer.pos)
                /\ created' = created + 1
                /\ maxId' = Max(maxId, newAnnotation.id)
                /\ lastOp' = Did("pinCreated")
                /\ UNCHANGED <<isDraggingRef, cancelled, saved, everTexted>>
    /\ UNCHANGED <<lastMousePosRef, highlightedId, annotationMode,
                   zoomLevel, pendingClears, now>>

\* handleImageClick; limit bounds the pins created in a session
HandleImageClick(limit) ==
    /\ pointer.phase = "click"
    /\ pointer.target = 0
    /\ pointer' = Idle
    /\ IF ClickIgnored(annotationMode, isDraggingRef)
       THEN /\ isDraggingRef' = FALSE
            /\ lastOp' = [op |-> "clickIgnored", far |-> pointer.far]
            /\ UNCHANGED <<storeVars, histVars>>
       ELSE LET newAnnotation ==
                    NewAnnotation(annotations, pointer.pos, ImageRect(zoomLevel), now)
            IN  /\ created < limit
                /\ annotations' = Append(annotations, newAnnotation)
                /\ selectedAnnotation' = Some(newAnnotation)
                /\ commentText' = ""
                /\ popupPosition' = Some(pointer.pos)
                /\ created' = created + 1
                /\ maxId' = Max(maxId, newAnnotation.id)
                /\ lastOp' = Did("pinCreated")
                /\ UNCHANGED <<isDraggingRef, cancelled, saved, everTexted>>
    /\ UNCHANGED <<lastMousePosRef, highlightedId, annotationMode,
                   zoomLevel, pendingClears, now>>

\* a marker click that first discards the textless pin being edited
HandleMarkerClickDroppingTextless ==
    /\ pointer.phase = "click"
    /\ pointer.target \in 1 .. Len(annotations)
    /\ pointer' = Idle
    /\ LET annotation == annotations[pointer.target]
           rect == MarkerRect(annotation, ImageRect(zoomLevel))
       IN  /\ annotations' =
                 IF /\ selectedAnnotation # Null
                    /\ The(selectedAnnotation).id # annotation.id
                    /\ CancelRemoves(The(selectedAnnotation), commentText)
                 THEN WithoutId(annotations, The(selectedAnnotation).id)
                 ELSE annotations
           /\ selectedAnnotation' = Some(annotation)
           /\ commentText' = annotation.text
           /\ popupPosition' = Some([x |-> rect.left, y |-> rect.top])
    /\ lastOp' = Did("markerClick")
    /\ UNCHANGED <<histVars, dragVars, highlightedId, annotationMode,
                   zoomLevel, pendingClears, now>>

\* a marker click that opens the editor in annotation mode only
HandleMarkerClickInModeOnly ==
    /\ pointer.phase = "click"
    /\ pointer.target \in 1 .. Len(annotations)
    /\ pointer' = Idle
    /\ IF annotationMode
       THEN LET annotation == annotations[pointer.target]
                rect == MarkerRect(annotation, ImageRect(zoomLevel))
            IN  /\ selectedAnnotation' = Some(annotation)
                /\ commentText' = annotation.text
                /\ popupPosition' = Some([x |-> rect.left, y |-> rect.top])
       ELSE UNCHANGED <<selectedAnnotation, commentText, popupPosition>>
    /\ lastOp' = Did("markerClick")
    /\ UNCHANGED <<annotations, histVars, dragVars, highlightedId, annotationMode,
                   zoomLevel, pendingClears, now>>

\* handleMarkerClick(annotation, e): stopPropagation keeps the click from the
\* surface
HandleMarkerClick ==
    /\ pointer.phase = "click"
    /\ pointer.target \in 1 .. Len(annotations)
    /\ pointer' = Idle
    /\ LET annotation == annotations[pointer.target]
           rect == MarkerRect(annotation, ImageRect(zoomLevel))
       IN  /\ selectedAnnotation' = Some(annotation)
           /\ commentText' = annotation.text
           /\ popupPosition' = Some([x |-> rect.left, y |-> rect.top])
    /\ lastOp' = Did("markerClick")
    /\ UNCHANGED <<annotations, histVars, dragVars, highlightedId, annotationMode,
                   zoomLevel, pendingClears, now>>

(***************************************************************************)
(* The popup: rendered when popupPosition && selectedAnnotation.           *)
(***************************************************************************)
\* a closePopup that leaves the selection behind
ClosePopupKeepingFocus ==
    /\ popupPosition' = Null
    /\ commentText' = ""
    /\ UNCHANGED selectedAnnotation

\* a closePopup that leaves the draft behind
ClosePopupKeepingDraft ==
    /\ popupPosition' = Null
    /\ selectedAnnotation' = Null
    /\ UNCHANGED commentText

\* closePopup
ClosePopup ==
    /\ popupPosition' = Null
    /\ selectedAnnotation' = Null
    /\ commentText' = ""

\* textarea onChange: setCommentText(e.target.value)
SetCommentText(text) ==
    /\ PopupOpen
    /\ text # commentText
    /\ commentText' = text
    /\ lastOp' = Did("type")
    /\ UNCHANGED <<annotations, selectedAnnotation, popupPosition, histVars, dragVars,
                   highlightedId, annotationMode, zoomLevel, pendingClears, now, pointer>>

\* handleSaveComment
HandleSaveComment ==
    /\ PopupOpen
    /\ pointer = Idle
    /\ IF selectedAnnotation = Null
       THEN UNCHANGED storeVars
       ELSE /\ annotations' =
                  SavedList(annotations, The(selectedAnnotation), commentText, now)
            /\ ClosePopup
    /\ everTexted' =
          IF selectedAnnotation # Null /\ Truthy(commentText)
          THEN everTexted \cup {The(selectedAnnotation).id} ELSE everTexted
    /\ saved' = TRUE
    /\ lastOp' = [op |-> "save", selected |-> selectedAnnotation, draft |-> commentText]
    /\ UNCHANGED <<created, maxId, cancelled, dragVars, highlightedId, annotationMode,
                   zoomLevel, pendingClears, now, pointer>>

\* handleCancel
HandleCancel ==
    /\ PopupOpen
    /\ pointer = Idle
    /\ IF selectedAnnotation = Null
       THEN UNCHANGED storeVars
       ELSE /\ annotations' =
                  CancelledList(annotations, The(selectedAnnotation), commentText)
            /\ ClosePopup
    /\ cancelled' = TRUE
    /\ everTexted' = everTexted \cap Ids(annotations')
    /\ lastOp' = [op |-> "cancel", selected |-> selectedAnnotation, draft |-> commentText]
    /\ UNCHANGED <<created, maxId, saved, dragVars, highlightedId, annotationMode,
                   zoomLevel, pendingClears, now, pointer>>

(***************************************************************************)
(* The comment list, the toolbar, the timers and the clock.                *)
(***************************************************************************)
\* a handleListClick that leaves an older highlight in place
HandleListClickKeepingOlder(annotation) ==
    /\ pointer = Idle
    /\ pendingClears < MaxTimers
    /\ highlightedId' = IF highlightedId = Null THEN Some(annotation.id) ELSE highlightedId
    /\ pendingClears' = pendingClears + 1
    /\ lastOp' = [op |-> "listClick", entry |-> annotation]
    /\ UNCHANGED <<storeVars, histVars, dragVars, annotationMode, zoomLevel, now, pointer>>

\* a handleListClick that sets the highlight and schedules no clear
HandleListClickWithoutTimer(annotation) ==
    /\ pointer = Idle
    /\ pendingClears < MaxTimers
    /\ highlightedId' = Some(annotation.id)
    /\ lastOp' = [op |-> "listClick", entry |-> annotation]
    /\ UNCHANGED <<storeVars, histVars, dragVars, annotationMode, zoomLevel, now,
                   pointer, pendingClears>>

\* handleListClick(annotation), from an entry of commentsWithText (the entry
\* also closes the drawer of the narrow layout, a flag no handler reads)
HandleListClick(annotation) ==
    /\ pointer = Idle
    /\ pendingClears < MaxTimers
    /\ highlightedId' = Some(annotation.id)
    /\ pendingClears' = pendingClears + 1
    /\ lastOp' = [op |-> "listClick", entry |-> annotation]
    /\ UNCHANGED <<storeVars, histVars, dragVars, annotationMode, zoomLevel, now, pointer>>

\* the callback of setTimeout(() => setHighlightedId(null), 2000)
TimerFires ==
    /\ pendingClears > 0
    /\ highlightedId' = Null
    /\ pendingClears' = pendingClears - 1
    /\ lastOp' = Did("timer")
    /\ UNCHANGED <<storeVars, histVars, dragVars, annotationMode, zoomLevel, now, pointer>>

\* a toggle that also closes the editor
ToggleAnnotationModeClosingPopup ==
    /\ pointer = Idle
    /\ annotationMode' = ~annotationMode
    /\ ClosePopup
    /\ lastOp' = Did("toggle")
    /\ UNCHANGED <<annotations, histVars, dragVars, highlightedId, zoomLevel,
                   pendingClears, now, pointer>>

\* onClick={() => setAnnotationMode(!annotationMode)}
ToggleAnnotationMode ==
    /\ pointer = Idle
    /\ annotationMode' = ~annotationMode
    /\ lastOp' = Did("toggle")
    /\ UNCHANGED <<storeVars, histVars, dragVars, highlightedId, zoomLevel,
                   pendingClears, now, pointer>>

\* handleZoomIn: the wrapper keeps the scale at or below maxScale
HandleZoomIn ==
    /\ pointer = Idle
    /\ zoomLevel < MaxZoomLevel
    /\ zoomLevel' = zoomLevel + 1
    /\ lastOp' = Did("zoomIn")
    /\ UNCHANGED <<storeVars, histVars, dragVars, highlightedId, annotationMode,
                   pendingClears, now, pointer>>

\* handleZoomOut: the wrapper keeps the scale at or above minScale
HandleZoomOut ==
    /\ pointer = Idle
    /\ zoomLevel > 0
    /\ zoomLevel' = zoomLevel - 1
    /\ lastOp' = Did("zoomOut")
    /\ UNCHANGED <<storeVars, histVars, dragVars, highlightedId, annotationMode,
                   pendingClears, now, pointer>>

\* handleResetTransform
HandleResetTransform ==
    /\ pointer = Idle
    /\ zoomLevel # InitialLevel
    /\ zoomLevel' = InitialLevel
    /\ lastOp' = Did("resetTransform")
    /\ UNCHANGED <<storeVars, histVars, dragVars, highlightedId, annotationMode,
                   pendingClears, now, pointer>>

\* time passes
Tick ==
    /\ now < MaxTime
    /\ now' = now + 1
    /\ lastOp' = Did("tick")
    /\ UNCHANGED <<storeVars, histVars, dragVars, highlightedId, annotationMode,
                   zoomLevel, pendingClears, pointer>>

(***************************************************************************)
(* Spec: the annotation store under every handler of the mouse, the popup  *)
(* and the mode toggle.  The user presses at one point and may drag to a   *)
(* far one; the clock stands still and the viewport is left alone.         *)
(***************************************************************************)
Next ==
    \/ \E target \in Targets : HandleMouseDown(target, NearPoint)
    \/ \E p \in {NearPoint, FarPoint} : pointer.phase = "down" /\ HandleMouseMove(p)
    \/ \E target \in Targets : HandleMouseUp(target)
    \/ HandleImageClick(MaxCreated)
    \/ HandleMarkerClick
    \/ \E text \in Texts : SetCommentText(text)
    \/ HandleSaveComment
    \/ HandleCancel
    \/ ToggleAnnotationMode

Spec == Init /\ [][Next]_vars

(***************************************************************************)
(* SpecClock: the store while time passes.  Plain clicks only.             *)
(***************************************************************************)
NextClock ==
    \/ \E target \in Targets : HandleMouseDown(target, NearPoint)
    \/ \E target \in Targets : HandleMouseUp(target)
    \/ HandleImageClick(MaxClockPins)
    \/ HandleMarkerClick
    \/ \E text \in Texts : SetCommentText(text)
    \/ HandleSaveComment
    \/ HandleCancel
    \/ Tick

SpecClock == Init /\ [][NextClock]_vars

(***************************************************************************)
(* SpecPointer: the click-versus-drag refs under every pointer position,   *)
(* with moves while the button is up and releases outside the surface.     *)
(***************************************************************************)
NextPointer ==
    \/ \E target \in Targets, p \in PressPoints : HandleMouseDown(target, p)
    \/ \E p \in Points : HandleMouseMove(p)
    \/ \E target \in Targets : HandleMouseUp(target)
    \/ ReleaseOutside
    \/ HandleImageClick(MaxPointerPins)
    \/ HandleMarkerClick
    \/ ToggleAnnotationMode

SpecPointer == Init /\ [][NextPointer]_vars

(***************************************************************************)
(* SpecHighlight: the highlight and its timers.  Pins are created, edited  *)
(* and cancelled by plain clicks; the entries of the comment list are      *)
(* selected while up to MaxTimers clears are pending.  A callback given to *)
(* setTimeout is run by the event loop once its delay has passed, whatever *)
(* else happens: TimerFires is weakly fair.                                *)
(***************************************************************************)
NextHighlight ==
    \/ \E target \in Targets : HandleMouseDown(target, NearPoint)
    \/ \E target \in Targets : HandleMouseUp(target)
    \/ HandleImageClick(MaxHighlightPins)
    \/ HandleMarkerClick
    \/ \E text \in Texts : SetCommentText(text)
    \/ HandleSaveComment
    \/ HandleCancel
    \/ \E k \in 1 .. Len(CommentsWithText(annotations)) :
          HandleListClick(CommentsWithText(annotations)[k])
    \/ TimerFires

SpecHighlight == Init /\ [][NextHighlight]_vars /\ WF_vars(TimerFires)

(***************************************************************************)
(* SpecZoom: pins created by plain clicks at two points of the surface     *)
(* while the viewport is zoomed in and out between the clicks.             *)
(***************************************************************************)
NextZoom ==
    \/ \E target \in Targets, p \in PressPoints : HandleMouseDown(target, p)
    \/ \E target \in Targets : HandleMouseUp(target)
    \/ HandleImageClick(MaxZoomPins)
    \/ HandleMarkerClick
    \/ HandleZoomIn
    \/ HandleZoomOut
    \/ HandleResetTransform

SpecZoom == Init /\ [][NextZoom]_vars

(***************************************************************************)
(* SpecViewport: the toolbar and the comment list around an edit session.  *)
(* The viewport is zoomed, the mode is toggled and the entries of the list *)
(* are selected while the popup is open or closed.  Plain clicks at one    *)
(* point.                                                                  *)
(***************************************************************************)
NextViewport ==
    \/ \E target \in Targets : HandleMouseDown(target, NearPoint)
    \/ \E target \in Targets : HandleMouseUp(target)
    \/ HandleImageClick(MaxViewPins)
    \/ HandleMarkerClick
    \/ \E text \in Texts : SetCommentText(text)
    \/ HandleSaveComment
    \/ HandleCancel
    \/ \E k \in 1 .. Len(CommentsWithText(annotations)) :
          HandleListClick(CommentsWithText(annotations)[k])
    \/ TimerFires
    \/ ToggleAnnotationMode
    \/ HandleZoomIn
    \/ HandleZoomOut
    \/ HandleResetTransform

SpecViewport == Init /\ [][NextViewport]_vars

(***************************************************************************)
(* Properties.  A step is recognised by what lastOp says it did; the pin   *)
(* being edited is the entry of the list that selectedAnnotation copies.   *)
(***************************************************************************)
RemoveAt(list, i) == SubSeq(list, 1, i - 1) \o SubSeq(list, i + 1, Len(list))

Edited(i) == selectedAnnotation # Null /\ annotations[i] = The(selectedAnnotation)

SamePlace(a, b) == a.id = b.id /\ a.x = b.x /\ a.y = b.y

\* C1: in every reachable state no two pins of the annotation list have the
\* same id.
C1_UniqueIds ==
    \A i, j \in 1 .. Len(annotations) :
        i # j => annotations[i].id # annotations[j].id

\* C2: a pin whose stored text is non-empty is never removed from the list:
\* after every step the list still holds a pin with its id at its place.
C2_TextedPinsPersist ==
    [][\A i \in 1 .. Len(annotations) :
          Truthy(annotations[i].text) =>
              \E j \in 1 .. Len(annotations') : SamePlace(annotations'[j], annotations[i])]_vars

\* C3: a plain click on the image in annotation mode (no move beyond the
\* threshold since the press) creates a pin, and as long as no cancel has run
\* the list holds one pin per such click, the pin at position i having id i
\* (ids 1..N in click order).
C3_ClicksNumberPins ==
    [][/\ (/\ pointer.phase = "click" /\ pointer.target = 0 /\ ~pointer.far
         /\ annotationMode /\ pointer'.phase = "up")
        => created' = created + 1
       /\ ~cancelled' =>
            /\ Len(annotations') = created'
            /\ \A i \in 1 .. Len(annotations') : annotations'[i].id = i]_vars

C3_Witness ==
    /\ ~cancelled
    /\ Len(annotations) >= 3
    /\ \E i \in 1 .. Len(annotations) : Truthy(annotations[i].text)

\* C4: every pin is created with id previousMax + 1, previousMax being the
\* largest id ever assigned in the session (no id is ever reused).
C4_IdNeverReused ==
    [][lastOp'.op = "pinCreated" =>
          annotations'[Len(annotations')].id = maxId + 1]_vars

\* C5: the click that ends a pointer session in which the pointer went more
\* than 5 from the press point in some axis, delivered to the image surface
\* (as it is whenever the press was on the surface), creates no pin and opens
\* no editor, whatever the annotation mode.
C5_DragCreatesNothing ==
    [][pointer.phase = "click" /\ pointer.target = 0 /\ pointer.far
       /\ pointer'.phase = "up" =>
          /\ annotations' = annotations
          /\ selectedAnnotation' = selectedAnnotation
          /\ popupPosition' = popupPosition]_vars

C5_Witness ==
    /\ lastOp.op = "clickIgnored"
    /\ lastOp.far
    /\ annotationMode
    /\ annotations = <<>>

\* C6: cancelling the edit session of a pin whose stored text is empty, with
\* nothing typed, removes that pin from the list and removes no other pin.
C6_CancelRemovesOnlyThatPin ==
    [][(/\ lastOp'.op = "cancel"
        /\ ~Truthy(The(selectedAnnotation).text)
        /\ ~Truthy(commentText))
       => \E i \in 1 .. Len(annotations) :
              Edited(i) /\ annotations' = RemoveAt(annotations, i)]_vars

\* C7: cancelling the edit session of a pin whose stored text is non-empty
\* leaves the annotation list unchanged, whatever the draft.
C7_CancelKeepsTextedPin ==
    [][(/\ lastOp'.op = "cancel"
        /\ \E i \in 1 .. Len(annotations) : Edited(i) /\ Truthy(annotations[i].text))
       => annotations' = annotations]_vars

C7_Witness ==
    /\ lastOp.op = "cancel"
    /\ Truthy(The(lastOp.selected).text)
    /\ lastOp.draft = ""
    /\ \E i \in 1 .. Len(annotations) : annotations[i] = The(lastOp.selected)

\* C8: save sets the text of the pin being edited to the draft and changes
\* nothing else: the edited pin keeps its id, x and y, every other pin is as
\* it was, and no pin is added, removed or reordered.
C8_SaveChangesOnlyEditedPin ==
    [][lastOp'.op = "save" =>
          \E i \in 1 .. Len(annotations) :
              /\ Edited(i)
              /\ Len(annotations') = Len(annotations)
              /\ annotations'[i].text = commentText
              /\ SamePlace(annotations'[i], annotations[i])
              /\ \A j \in 1 .. Len(annotations) :
                    j # i => annotations'[j] = annotations[j]]_vars

\* C9: on save, the timestamp of the edited pin (of every pin carrying the
\* edited id) becomes the current time if its stored text was empty just
\* before the save, and is unchanged if its stored text was non-empty.
C9_SaveTimestamp ==
    [][lastOp'.op = "save" =>
          /\ \E i \in 1 .. Len(annotations) : Edited(i)
          /\ Len(annotations') = Len(annotations)
          /\ \A i \in 1 .. Len(annotations) :
                annotations[i].id = The(selectedAnnotation).id =>
                    annotations'[i].timestamp =
                        IF annotations[i].text = "" THEN now
                        ELSE annotations[i].timestamp]_vars

C9_Witness ==
    /\ lastOp.op = "save"
    /\ The(lastOp.selected).text = ""
    /\ The(lastOp.selected).timestamp < now
    /\ \E i \in 1 .. Len(annotations) :
          /\ annotations[i].id = The(lastOp.selected).id
          /\ annotations[i].timestamp = now
    /\ \E i \in 1 .. Len(annotations) :
          /\ annotations[i].id # The(lastOp.selected).id
          /\ annotations[i].timestamp < now

\* C10 as stated: a pin's timestamp changes only at the first save of
\* non-empty text: in a save whose draft is non-empty, on a pin that was never
\* saved non-empty text before.
C10_OnlyFirstTextedSave ==
    [][lastOp'.op = "save" =>
          \A i \in 1 .. Len(annotations) :
              annotations'[i].timestamp # annotations[i].timestamp =>
                  /\ Truthy(commentText)
                  /\ annotations[i].id \notin everTexted]_vars

\* C10 as amended: a pin's timestamp changes only in a save made while its
\* stored text is empty, whatever the draft; a save made while its stored text
\* is non-empty, and every other operation, leaves it as it was.
C10_ChangesOnlyWhileTextEmpty ==
    [][IF lastOp'.op = "cancel"
       THEN \A j \in 1 .. Len(annotations') :
               \E i \in 1 .. Len(annotations) : annotations[i] = annotations'[j]
       ELSE /\ Len(annotations') >= Len(annotations)
            /\ \A i \in 1 .. Len(annotations) :
                  annotations'[i].timestamp # annotations[i].timestamp =>
                      lastOp'.op = "save" /\ annotations[i].text = ""]_vars

C10_Witness ==
    /\ lastOp.op = "save"
    /\ lastOp.draft = ""
    /\ The(lastOp.selected).text = ""
    /\ \E i \in 1 .. Len(annotations) :
          /\ annotations[i].id = The(lastOp.selected).id
          /\ annotations[i].timestamp > The(lastOp.selected).timestamp

\* C11: the comment list is exactly the sub-sequence of the annotation list
\* made of the pins with non-empty text, in list order: the k-th pin with
\* non-empty text is the k-th entry, there is no other entry, and the count
\* shown is the number of pins with non-empty text.
C11_CommentListIsTextedSubsequence ==
    LET comments == CommentsWithText(annotations)
        texted == {i \in 1 .. Len(annotations) : annotations[i].text # ""}
        Rank(i) == Cardinality({j \in texted : j <= i})
    IN  /\ Len(comments) = Cardinality(texted)
        /\ CommentsCount(annotations) = Cardinality(texted)
        /\ \A i \in texted : comments[Rank(i)] = annotations[i]

C11_Witness ==
    /\ Len(annotations) = 3
    /\ annotations[1].text = "a"
    /\ annotations[2].text = ""
    /\ annotations[3].text = "b"
    /\ CommentsCount(annotations) = 2

\* C12: save never removes a pin: after a save every pin is still at its
\* place in the list; the edited pin has the draft as its text, and it is an
\* entry of the comment list exactly when the draft is non-empty (an empty
\* draft leaves it in the annotation list with empty text and unlisted).
C12_SaveKeepsEveryPin ==
    [][lastOp'.op = "save" =>
          LET comments == CommentsWithText(annotations')
          IN  /\ Len(annotations') = Len(annotations)
              /\ \A i \in 1 .. Len(annotations) :
                    SamePlace(annotations'[i], annotations[i])
              /\ \E i \in 1 .. Len(annotations) : Edited(i)
              /\ \A i \in 1 .. Len(annotations) :
                    Edited(i) =>
                        /\ annotations'[i].text = commentText
                        /\ (\E k \in 1 .. Len(comments) : comments[k] = annotations'[i])
                              <=> commentText # ""]_vars

C12_Witness ==
    /\ lastOp.op = "save"
    /\ lastOp.draft = ""
    /\ The(lastOp.selected).text = ""
    /\ \E i \in 1 .. Len(annotations) :
          /\ annotations[i].id = The(lastOp.selected).id
          /\ annotations[i].text = ""
    /\ CommentsCount(annotations) = 1
    /\ Len(annotations) = 2

\* C13: while annotation mode is off, a click delivered to the image surface
\* creates no pin and opens no editor: the annotation list, the edit focus,
\* the draft and the popup are as they were.
C13_ModeOffClickCreatesNothing ==
    [][(/\ pointer.phase = "click" /\ pointer.target = 0
        /\ ~annotationMode /\ pointer'.phase = "up")
       => /\ annotations' = annotations
          /\ selectedAnnotation' = selectedAnnotation
          /\ commentText' = commentText
          /\ popupPosition' = popupPosition]_vars

C13_Witness ==
    /\ lastOp.op = "clickIgnored"
    /\ ~lastOp.far
    /\ ~annotationMode
    /\ ~isDraggingRef
    /\ Len(annotations) = 1
    /\ created = 1

\* C14: a click delivered to the marker of a pin, with annotation mode on or
\* off, makes that pin the edit focus with the draft equal to the pin's
\* stored text, opens the popup, and leaves the annotation list unchanged.
C14_MarkerClickEditsThatPin ==
    [][(/\ pointer.phase = "click" /\ pointer.target > 0 /\ pointer'.phase = "up")
       => /\ annotations' = annotations
          /\ selectedAnnotation' = Some(annotations[pointer.target])
          /\ commentText' = annotations[pointer.target].text
          /\ popupPosition' # Null]_vars

C14_Witness ==
    /\ lastOp.op = "markerClick"
    /\ ~annotationMode
    /\ selectedAnnotation # Null
    /\ commentText = "a"
    /\ The(selectedAnnotation).text = "a"
    /\ Len(annotations) = 2
    /\ annotations[1] = The(selectedAnnotation)

\* C15: a save or a cancel made while an edit session is open ends it: after
\* the step there is no edit focus, the popup is closed and the draft is
\* empty.
C15_SaveAndCancelReturnToIdle ==
    [][(lastOp'.op \in {"save", "cancel"} /\ selectedAnnotation # Null)
       => /\ selectedAnnotation' = Null
          /\ popupPosition' = Null
          /\ commentText' = ""]_vars

C15_Witness ==
    /\ lastOp.op = "cancel"
    /\ lastOp.draft = "b"
    /\ The(lastOp.selected).text = "a"
    /\ selectedAnnotation = Null
    /\ popupPosition = Null
    /\ commentText = ""

\* C16: a click delivered to the image surface in annotation mode, with no
\* move beyond the threshold since the press, appends one pin with empty text
\* after the pins already listed and starts editing it: the edit focus is the
\* new pin, the draft is empty and the popup is open.
C16_ClickAppendsAndEdits ==
    [][(/\ pointer.phase = "click" /\ pointer.target = 0 /\ ~pointer.far
        /\ annotationMode /\ pointer'.phase = "up")
       => /\ Len(annotations') = Len(annotations) + 1
          /\ SubSeq(annotations', 1, Len(annotations)) = annotations
          /\ annotations'[Len(annotations')].text = ""
          /\ selectedAnnotation' = Some(annotations'[Len(annotations')])
          /\ commentText' = ""
          /\ popupPosition' # Null]_vars

C16_Witness ==
    /\ lastOp.op = "pinCreated"
    /\ Len(annotations) = 2
    /\ annotations[1].text = "a"
    /\ annotations[2].text = ""
    /\ selectedAnnotation = Some(annotations[2])
    /\ commentText = ""
    /\ popupPosition # Null

\* the point is within the rectangle, edges included
Inside(p, rect) ==
    /\ rect.left <= p.x /\ p.x <= rect.left + rect.width
    /\ rect.top <= p.y /\ p.y <= rect.top + rect.height

\* C17: a click whose pointer position lies outside the image's rendered
\* rectangle creates no pin, and every pin of the list has 0 <= x <= 100 and
\* 0 <= y <= 100.
C17_OutsideClickCreatesNothing ==
    [][/\ (/\ pointer.phase = "click" /\ pointer.target = 0
           /\ ~Inside(pointer.pos, ImageRect(zoomLevel))
           /\ pointer'.phase = "up")
          => annotations' = annotations
       /\ \A i \in 1 .. Len(annotations') :
             /\ 0 <= annotations'[i].x /\ annotations'[i].x <= 100
             /\ 0 <= annotations'[i].y /\ annotations'[i].y <= 100]_vars

\* the places of the list that a save would update and a cancel could delete:
\* both handlers match ann.id against selectedAnnotation.id
EditTargets ==
    IF selectedAnnotation = Null THEN {}
    ELSE {i \in 1 .. Len(annotations) : annotations[i].id = The(selectedAnnotation).id}

\* C18: at most one pin is being edited at a time: in every reachable state
\* at most one pin of the annotation list is the target of the edit focus,
\* the pin that save would update and cancel could delete.
C18_SingleEditTarget == Cardinality(EditTargets) <= 1

\* C19: creating a pin appends it at the end of the annotation list, and no
\* operation reorders the list: the pins that remain after a step (all of
\* them, unless the step is a cancel) are at the same relative places, with
\* their id, x and y, and the only new pin comes after them.
C19_AppendAtEndNeverReorder ==
    [][IF lastOp'.op = "cancel"
       THEN \E keep \in SUBSET (1 .. Len(annotations)) :
               LET Rank(i) == Cardinality({j \in keep : j <= i})
               IN  /\ Len(annotations') = Cardinality(keep)
                   /\ \A i \in keep : SamePlace(annotations'[Rank(i)], annotations[i])
       ELSE /\ Len(annotations') =
                  Len(annotations) + (IF lastOp'.op = "pinCreated" THEN 1 ELSE 0)
            /\ \A i \in 1 .. Len(annotations) :
                  SamePlace(annotations'[i], annotations[i])]_vars

C19_Witness ==
    /\ lastOp.op = "cancel"
    /\ created = 3
    /\ Len(annotations) = 2
    /\ annotations[1].id = 1
    /\ annotations[2].id = 3

\* C20: selecting an entry of the comment list sets the highlight to the id
\* of that entry's pin, and a highlight that is set is eventually cleared by
\* a timer (so it is when no further entry is selected), the timers firing
\* under weak fairness.
C20_HighlightSetThenCleared ==
    /\ [][lastOp'.op = "listClick" =>
             /\ \E k \in 1 .. Len(CommentsWithText(annotations)) :
                   CommentsWithText(annotations)[k] = lastOp'.entry
             /\ highlightedId' = Some(lastOp'.entry.id)]_vars
    /\ (highlightedId # Null ~> highlightedId = Null)

C20_Witness ==
    /\ lastOp.op = "listClick"
    /\ highlightedId = Some(lastOp.entry.id)
    /\ pendingClears = 2
    /\ \E i \in 1 .. Len(annotations) : annotations[i] = lastOp.entry

\* C21: a newer highlight request supersedes the pending clear of an older
\* one: a timer that fires while a later selection's timer is still pending
\* (timers of one delay fire in the order they were set, so it is the timer
\* of an older selection) leaves the highlight as it is.
C21_OlderTimerKeepsNewerHighlight ==
    [][(lastOp'.op = "timer" /\ pendingClears > 1)
       => highlightedId' = highlightedId]_vars

\* C22 as stated: selecting the comment-list entry of pin p changes the
\* highlight state of no other pin: every other pin is highlighted after the
\* selection exactly when it was highlighted before it.
C22_OtherPinsKeepHighlight ==
    [][lastOp'.op = "listClick" =>
          \A i \in 1 .. Len(annotations) :
              annotations[i] # lastOp'.entry =>
                  (IsHighlighted(highlightedId', annotations[i])
                      <=> IsHighlighted(highlightedId, annotations[i]))]_vars

\* C22 as amended: there is one highlight: after the selection of the entry
\* of pin p a pin is highlighted exactly when its id is p's id, so a pin
\* with another id that was highlighted before the selection no longer is.
C22_OnlySelectedIdHighlighted ==
    [][lastOp'.op = "listClick" =>
          \A i \in 1 .. Len(annotations') :
              IsHighlighted(highlightedId', annotations'[i])
                  <=> annotations'[i].id = lastOp'.entry.id]_vars

C22_Witness ==
    /\ lastOp.op = "listClick"
    /\ pendingClears = 2
    /\ Len(annotations) = 2
    /\ annotations[1].id # annotations[2].id
    /\ annotations[1].text # "" /\ annotations[2].text # ""
    /\ lastOp.entry = annotations[2]
    /\ IsHighlighted(highlightedId, annotations[2])
    /\ ~IsHighlighted(highlightedId, annotations[1])

\* C23: the pin created by a qualifying click at pointer (pointerX, pointerY)
\* has x = (pointerX - left) / width * 100 and y = (pointerY - top) / height *
\* 100, for the image rectangle (left, top, width, height) of the zoom level
\* at the moment of the click.
C23_PinAtRelativePosition ==
    [][lastOp'.op = "pinCreated" =>
          LET rect == ImageRect(zoomLevel)
              pin == annotations'[Len(annotations')]
          IN  /\ pin.x * rect.width = (pointer.pos.x - rect.left) * 100
              /\ pin.y * rect.height = (pointer.pos.y - rect.top) * 100]_vars

C23_Witness ==
    /\ lastOp.op = "pinCreated"
    /\ zoomLevel = 0
    /\ popupPosition = Some([x |-> DRAG_THRESHOLD + 1, y |-> DRAG_THRESHOLD + 1])
    /\ annotations[Len(annotations)].x = 120
    /\ annotations[Len(annotations)].y = 20

\* C24 as stated: the first save of non-empty text on a freshly created pin
\* (empty text, never saved with text) keeps the pin's creation timestamp.
C24_FirstSaveKeepsCreationTime ==
    [][(lastOp'.op = "save" /\ Truthy(commentText)) =>
          \A i \in 1 .. Len(annotations) :
              (/\ Edited(i)
               /\ annotations[i].text = ""
               /\ annotations[i].id \notin everTexted)
              => annotations'[i].timestamp = annotations[i].timestamp]_vars

\* C24 as amended: the first save of non-empty text on a freshly created pin
\* replaces the creation timestamp by the time of the save, and the comment
\* list shows the pin with the time of the save.
C24_FirstSaveStampsSaveTime ==
    [][(lastOp'.op = "save" /\ Truthy(commentText)) =>
          \A i \in 1 .. Len(annotations) :
              (/\ Edited(i)
               /\ annotations[i].text = ""
               /\ annotations[i].id \notin everTexted)
              => /\ annotations'[i].timestamp = now
                 /\ \E k \in 1 .. Len(CommentsWithText(annotations')) :
                       /\ CommentsWithText(annotations')[k] = annotations'[i]
                       /\ CommentsWithText(annotations')[k].timestamp = now]_vars

C24_Witness ==
    /\ lastOp.op = "save"
    /\ lastOp.draft = "a"
    /\ The(lastOp.selected).text = ""
    /\ The(lastOp.selected).timestamp = 0
    /\ now = 1
    /\ Len(annotations) = 1
    /\ annotations[1].text = "a"
    /\ annotations[1].timestamp = 1

C26_ThresholdFromPressPoint ==
    [][(/\ pointer.phase = "click" /\ pointer.target = 0
        /\ annotationMode /\ pointer'.phase = "up")
       => IF pointer.far
          THEN annotations' = annotations /\ selectedAnnotation' = selectedAnnotation
          ELSE /\ Len(annotations') = Len(annotations) + 1
               /\ selectedAnnotation' = Some(annotations'[Len(annotations')])]_vars

C26_Witness ==
    /\ pointer.phase = "down"
    /\ pointer.far
    /\ pointer.pos = pointer.press
    /\ isDraggingRef
    /\ annotationMode

\* C27: a drag never suppresses a later plain click: every press clears the
\* drag mark whatever came before, the mark is clear when the click of a
\* session without a move beyond the threshold is delivered, and that click,
\* on the image in annotation mode, creates a pin.
C27_PressClearsDragMark ==
    [][/\ (pointer.phase = "up" /\ pointer'.phase = "down") => ~isDraggingRef'
       /\ (pointer.phase = "click" /\ ~pointer.far) => ~isDraggingRef
       /\ (/\ pointer.phase = "click" /\ pointer.target = 0 /\ ~pointer.far
           /\ annotationMode /\ pointer'.phase = "up")
          => lastOp'.op = "pinCreated" /\ created' = created + 1]_vars

C27_Witness ==
    /\ lastOp.op = "press"
    /\ lastOp.marked
    /\ pointer.phase = "down"
    /\ pointer.target = 0
    /\ ~isDraggingRef
    /\ annotationMode
    /\ annotations = <<>>

\* C28: in every reachable state an edit focus is (a copy of) a pin that is
\* in the annotation list, and the popup is open exactly when there is an
\* edit focus: selectedAnnotation and popupPosition are set and cleared
\* together.
C28_FocusIsListedAndShown ==
    /\ selectedAnnotation # Null =>
          \E i \in 1 .. Len(annotations) : annotations[i] = The(selectedAnnotation)
    /\ PopupOpen <=> selectedAnnotation # Null
    /\ popupPosition # Null <=> selectedAnnotation # Null

C28_Witness ==
    /\ cancelled
    /\ lastOp.op = "markerClick"
    /\ Len(annotations) = 2
    /\ selectedAnnotation = Some(annotations[1])
    /\ annotations[1].text = "a"
    /\ popupPosition # Null

\* C29: toggling annotation mode, zooming in, zooming out, resetting the
\* transform and selecting a comment-list entry leave the annotation list,
\* the edit focus (with its popup) and the draft text unchanged.
C29_ToolbarAndListKeepTheStore ==
    [][lastOp'.op \in {"toggle", "zoomIn", "zoomOut", "resetTransform", "listClick"}
       => /\ annotations' = annotations
          /\ selectedAnnotation' = selectedAnnotation
          /\ popupPosition' = popupPosition
          /\ commentText' = commentText]_vars

C29_Witness ==
    /\ lastOp.op \in {"toggle", "zoomIn", "zoomOut", "resetTransform", "listClick"}
    /\ zoomLevel # InitialLevel
    /\ ~annotationMode
    /\ highlightedId # Null
    /\ PopupOpen
    /\ The(selectedAnnotation).text = "a"
    /\ commentText = "b"
    /\ annotations = <<The(selectedAnnotation)>>

====
